---- MODULE Spec2Model ----
(***************************************************************************)
(* A model of scripts/optimize_color.py (rio-color): the ColorEstimator    *)
(* annealer, its energy function, histogram_distance and main.             *)
(*                                                                         *)
(* Numbers.  Python floats are modelled by exact integers on fixed grids:  *)
(*   - image samples in units of 1e-7 (One = 1.0, EpsS = eps = 1e-6);      *)
(*   - parameter values in units of 1/Unit, Unit = 10^Prec, with Prec      *)
(*     large enough that every product v * 0.9 and v * 1.1 reachable       *)
(*     within MaxSteps moves is exact;                                     *)
(*   - distances and energies as exact fractions [num, den].               *)
(* NaN is a sample value of its own, for which every comparison is false.  *)
(***************************************************************************)
EXTENDS Integers, Sequences, FiniteSets, TLC

\* ------------------------------------------------------------------ bounds
MaxSteps == 2
MaxUpdates == 1
MaxLen == 2
MaxPasses == 3
MaxForeign == 2
MaxHundreds == 8
MaxDownsample == 2

\* ------------------------------------------------------- program constants
EpsInv == 1000000
NumChannels == 3
EnergyScale == 100
UpdateDivisor == 20
Target == 400

VARIABLES
    pc, err, arg, src, ref, state, prevState, prevEnergy, E, best_state,
    best_energy, E0, step, steps, updates, nmoves, memo, arr, lastD, lastE,
    optimal, score, ops,
    ha, hb, hbins, hres, hresSw,
    self_src, self_ref,
    mvPre, mvDraw, mvKey, mvMul, mvRuns,
    seed, rng, ownDraws, foreignDraws, proposals,
    imgW, imgH, sampling, downsample, ratio, outW, outH

engineVars == <<pc, err, arg, src, ref, state, prevState, prevEnergy, E,
                best_state, best_energy, E0, step, steps, updates, nmoves,
                memo, arr, lastD, lastE,
                optimal, score, ops>>
hdVars == <<ha, hb, hbins, hres, hresSw>>
\* self.src and self.ref, the engine's copies of the caller's arrays.
ownVars == <<self_src, self_ref>>
\* One call of move: the state before it, the first draw, the key and the
\* multiplier it ends up with, the passes of its while loop.
mvVars == <<mvPre, mvDraw, mvKey, mvMul, mvRuns>>
\* The module-level generator of `random`: its seed, the number of values
\* drawn from it so far, by the engine and by other code, and the proposals
\* the engine drew.
rngVars == <<seed, rng, ownDraws, foreignDraws, proposals>>
\* main's reading of one image: its size, which of the two reads it is, the
\* --downsample option, the ratio and the size read.
dsVars == <<imgW, imgH, sampling, downsample, ratio, outW, outH>>
auxVars == <<mvVars, rngVars, dsVars>>
vars == <<engineVars, hdVars, ownVars, auxVars>>

\* ----------------------------------------------------------------- numbers
One == EpsInv * 10
Half == One \div 2
EpsS == One \div EpsInv
NaN == 0 - One * 100

\* Exact fractions.
R(n, d) == [num |-> n, den |-> d]
RZero == R(0, 1)
NoValue == R(0 - 1, 1)
RAdd(x, y) == IF x.den = y.den THEN R(x.num + y.num, x.den)
              ELSE R(x.num * y.den + y.num * x.den, x.den * y.den)
RScale(k, x) == R(k * x.num, x.den)
RLess(x, y) == x.num * y.den < y.num * x.den
RLeq(x, y) == x.num * y.den <= y.num * x.den
REq(x, y) == x.num * y.den = y.num * x.den

\* Float comparisons: false as soon as one side is NaN.
FGt(x, y) == x # NaN /\ y # NaN /\ x > y
FLt(x, y) == x # NaN /\ y # NaN /\ x < y

SeqRange(s) == {s[i] : i \in DOMAIN s}
HasNaN(a) == NaN \in SeqRange(a)
\* numpy's min and max propagate NaN.
ArrMin(a) == IF HasNaN(a) THEN NaN
             ELSE CHOOSE v \in SeqRange(a) : \A w \in SeqRange(a) : v <= w
ArrMax(a) == IF HasNaN(a) THEN NaN
             ELSE CHOOSE v \in SeqRange(a) : \A w \in SeqRange(a) : v >= w

\* ---------------------------------------------------- histogram_distance
\* bins = [x / 10 for x in range(11)]
DefaultBins == [x \in 1..11 |-> ((x - 1) * One) \div 10]

\* if not bins: None and the empty list both select the default edges.
BinsOrDefault(bins) == IF bins = <<>> THEN DefaultBins ELSE bins

\* The four range assertions: strict comparisons against 0 - eps and 1 + eps.
RangeOK(a1, a2) ==
    /\ FGt(ArrMin(a1), 0 - EpsS)
    /\ FLt(ArrMax(a1), One + EpsS)
    /\ FGt(ArrMin(a2), 0 - EpsS)
    /\ FLt(ArrMax(a2), One + EpsS)

\* A variant of InBin whose last bin is half-open like the others.
InBinHalfOpen(v, edges, k, nb) ==
    /\ v # NaN
    /\ edges[k] <= v
    /\ v < edges[k + 1]

\* np.histogram with explicit edges e_1..e_nb+1: bin k is [e_k, e_k+1), the
\* last bin is closed on the right; samples outside [e_1, e_nb+1] and NaN are
\* not counted.
InBin(v, edges, k, nb) ==
    /\ v # NaN
    /\ edges[k] <= v
    /\ IF k = nb THEN v <= edges[k + 1] ELSE v < edges[k + 1]

BinCount(a, edges, k, nb) ==
    Cardinality({i \in DOMAIN a : InBin(a[i], edges, k, nb)})

\* np.histogram(arr, bins=bins)[0]
Histogram(a, edges, nb) == [k \in 1..nb |-> BinCount(a, edges, k, nb)]

RECURSIVE SumTo(_, _, _)
SumTo(h, nb, k) == IF k > nb THEN 0 ELSE h[k] + SumTo(h, nb, k + 1)

\* assert abs(hist.sum() - 1.0) < eps, with hist = counts / size, as the set
\* of outcomes the comparison can have.  The exact sum is counted / size, so
\* the assert compares |counted - size| / size with 1 / EpsInv.  The code
\* compares doubles: each quotient counts[k] / size is rounded, and so is
\* each of the nb - 1 additions, which puts the sum within
\* (nb + 1) * 2^-54 of counted / size (the subtraction from 1.0 is exact, eps
\* is the double nearest to 1 / EpsInv).  Where the exact values differ by
\* more than that, the doubles compare as the exact values do.  Where they
\* differ by at most that, the outcome is decided by the rounding, which the
\* counts alone do not fix: both outcomes.  The band is taken a little
\* wide, (nb + 1) * 10^-10 / EpsInv, as 10^10 * EpsInv < 2^54; it is empty
\* for sizes below 10^10 / (nb + 1) unless size = |counted - size| * EpsInv.
SumOK(h, nb, n) ==
    LET c == SumTo(h, nb, 1)
        d == IF c >= n THEN c - n ELSE n - c
        gap == IF d * EpsInv >= n THEN d * EpsInv - n ELSE n - d * EpsInv
        band == ((n * (nb + 1)) \div 100000) \div 100000
    IN  IF gap <= band THEN BOOLEAN ELSE {d * EpsInv < n}

Sq(x) == x * x

\* sqerr = (hist1 - hist2)**2; sqerr.sum(), with hist_i = h_i / n_i.
RECURSIVE SqErrNum(_, _, _, _, _, _)
SqErrNum(h1, n1, h2, n2, nb, k) ==
    IF k > nb THEN 0
    ELSE Sq(h1[k] * n2 - h2[k] * n1) + SqErrNum(h1, n1, h2, n2, nb, k + 1)

\* A variant of SqErrSum that divides both histograms by the first size.
RECURSIVE SqErrNumOneSize(_, _, _, _)
SqErrNumOneSize(h1, h2, nb, k) ==
    IF k > nb THEN 0
    ELSE Sq(h1[k] - h2[k]) + SqErrNumOneSize(h1, h2, nb, k + 1)

SqErrSumOneSize(h1, n1, h2, n2, nb) ==
    R(SqErrNumOneSize(h1, h2, nb, 1) * Sq(n2), Sq(n1 * n2))

SqErrSum(h1, n1, h2, n2, nb) ==
    R(SqErrNum(h1, n1, h2, n2, nb, 1), Sq(n1 * n2))

Failed(e) == [ok |-> FALSE, err |-> e, val |-> NoValue]
Returned(v) == [ok |-> TRUE, err |-> "none", val |-> v]

\* histogram_distance(arr1, arr2, bins): the set of its outcomes, one
\* outcome wherever both sum assertions are decided.
histogram_distance(a1, a2, bins) ==
    IF ~RangeOK(a1, a2) THEN {Failed("AssertionError")}
    ELSE LET edges == BinsOrDefault(bins)
             nb == Len(edges) - 1
             h1 == Histogram(a1, edges, nb)
             h2 == Histogram(a2, edges, nb)
         IN  {IF ok1 /\ ok2
              THEN Returned(SqErrSum(h1, Len(a1), h2, Len(a2), nb))
              ELSE Failed("AssertionError") :
                 ok1 \in SumOK(h1, nb, Len(a1)),
                 ok2 \in SumOK(h2, nb, Len(a2))}

\* --------------------------------------------------------- ColorEstimator
\* keys = "gamma_red,gamma_green,gamma_blue,contrast".split(',')
keys == <<"gamma_red", "gamma_green", "gamma_blue", "contrast">>
Keys == SeqRange(keys)

RECURSIVE Pow10(_)
Pow10(n) == IF n = 0 THEN 1 ELSE 10 * Pow10(n - 1)
Prec == MaxSteps + 2
Unit == Pow10(Prec)

EmptyMap == [k \in {} |-> 0]
NoneArg == [given |-> FALSE, map |-> EmptyMap]
Given(m) == [given |-> TRUE, map |-> m]

\* A variant of DefaultParams with contrast 1.0.
DefaultParamsUnitContrast == [k \in Keys |-> Unit]

\* dict(gamma_red=1.0, gamma_green=1.0, gamma_blue=1.0, contrast=10)
DefaultParams ==
    [k \in Keys |-> IF k = "contrast" THEN 10 * Unit ELSE Unit]

\* not state: None and the empty mapping are both falsy.
Falsy(a) == ~a.given \/ DOMAIN a.map = {}

\* __init__: without a state the defaults are used; with one, the lookup of
\* self._validate fails, since the class defines validate and no _validate.
init(a) ==
    IF Falsy(a) THEN [ok |-> TRUE, err |-> "none", params |-> DefaultParams]
    ELSE [ok |-> FALSE, err |-> "AttributeError", params |-> EmptyMap]

\* validate(): False when a key is missing; otherwise the loop ends and the
\* method returns None.
validate(st) ==
    IF \E i \in DOMAIN keys : keys[i] \notin DOMAIN st THEN "False" ELSE "None"

\* random.choice((0.9, 1.1)), in tenths.
Multipliers == {9, 11}
Mul(v, m) == (v * m) \div 10

\* A variant of BiasGuard that guards the key 'contrast'.
BiasGuardContrast(st, k) == k = "contrast" /\ st[k] * 1000 > 909 * Unit

\* The guard of the while loop in move: taken only for the key 'bias'.
BiasGuard(st, k) == k = "bias" /\ st[k] * 1000 > 909 * Unit

\* The key move() ends up with: the first draw k, or, when the guard is
\* taken, the redraw k2 from keys (which the guard then lets through).
MoveKey(st, k, k2) == IF BiasGuard(st, k) THEN k2 ELSE k

\* A variant of move that stores the new value under the literal key 'k'.
moveLiteralKey(st, k, k2, m) ==
    LET kk == MoveKey(st, k, k2)
    IN  [j \in DOMAIN st \cup {"k"} |-> IF j = "k" THEN Mul(st[kk],
        m) ELSE st[j]]

\* move() with the draws k, k2 and the multiplier m:
\* newval = self.state[k] * multiplier; self.state[k] = newval
move(st, k, k2, m) ==
    LET kk == MoveKey(st, k, k2)
    IN  [st EXCEPT ![kk] = Mul(st[kk], m)]

\* Binary doubles.  A number of the model stands for the double nearest to
\* it; a double has MantissaBits bits after its leading bit.
MantissaBits == 52

RECURSIVE Pow2(_)
Pow2(n) == IF n = 0 THEN 1 ELSE 2 * Pow2(n - 1)

\* 2^n modulo md
RECURSIVE PowMod2(_, _)
PowMod2(n, md) == IF n = 0 THEN 1 % md ELSE (2 * PowMod2(n - 1, md)) % md

RECURSIVE Log2Up(_, _)
Log2Up(num, den) == IF den * 2 <= num THEN 1 + Log2Up(num, den * 2) ELSE 0

RECURSIVE Log2Down(_, _)
Log2Down(num, den) == IF num < den THEN Log2Down(num * 2, den) - 1 ELSE 0

\* floor(log2(num / den)) for num, den > 0: the exponent of the double.
Log2Floor(num, den) ==
    IF num >= den THEN Log2Up(num, den) ELSE Log2Down(num, den)

\* The double nearest to num / den, as the residue modulo den of
\* num * 2^k, k = MantissaBits - exponent: 0 when num / den is a double,
\* below den / 2 when the double lies below num / den, above den / 2 when it
\* lies above (then by den - residue, in units of 2^-k / den).
DoubleResidue(num, den) ==
    ((num % den) * PowMod2(MantissaBits - Log2Floor(num, den), den)) % den

\* '{:.2f}'.format(v): the decimal expansion of the double, rounded to
\* nearest at two places.  A value half-way between two hundredths is a
\* number of thousandths p: the double of p / 1000 lies above or below it
\* and decides; where p / 1000 is itself a double the tie goes to the even
\* hundredth.  The values a run reaches from 1.0, 10, 2, 5 and 0.04 by up
\* to six factors of 0.9 and 1.1 format as the doubles nearest to their
\* exact products do; for other starting values (0.05 * 0.9, 0.5 * 1.1 * 1.1)
\* the rounding of the float product can decide a half-way case the other
\* way.
Round2(v) ==
    LET cent == Unit \div 100
        f == v \div cent
        rest == v % cent
        p == v \div (Unit \div 1000)
        r == DoubleResidue(p, 1000)
    IN  IF 2 * rest < cent THEN f
        ELSE IF 2 * rest > cent THEN f + 1
        ELSE IF r = 0 THEN (IF f % 2 = 0 THEN f ELSE f + 1)
        ELSE IF 2 * r < 1000 THEN f
        ELSE f + 1

\* cmd(state): the descriptor, as the four formatted fields in the order
\* gamma r, gamma g, gamma b, sigmoidal rgb; other keys are not read.
cmd(st) ==
    <<Round2(st["gamma_red"]), Round2(st["gamma_green"]),
      Round2(st["gamma_blue"]), Round2(st["contrast"])>>

\* __init__: self.src = source.copy(); self.ref = reference.copy()
CopyOf(a) == a

\* A variant of SrcAfterEnergy in which energy() transforms self.src itself.
SrcAfterEnergyInPlace(own, img) == img

\* energy(): arr = self.src.copy(); the operations work on arr and self.src
\* stays as it was.
SrcAfterEnergy(own, img) == own

\* energy(), given the array the parsed operations produce from the source:
\* scores = [histogram_distance(ref[i], arr[i]) for i in range(3)];
\* sum(scores) * 100.  An assertion failing in a score propagates.  The
\* channels of an array have one shape, so the scores share a denominator.
RECURSIVE SumNums(_, _)
SumNums(scores, i) ==
    IF i > Len(scores) THEN 0 ELSE scores[i].val.num + SumNums(scores, i + 1)

\* The score lists of the first n channels: one score per channel, each an
\* outcome of histogram_distance for that channel.
ScoreLists(rf, img, n) ==
    LET per == [i \in 1..n |-> histogram_distance(rf[i], img[i], <<>>)]
    IN  {ss \in [1..n -> UNION {per[i] : i \in 1..n}] :
            \A i \in 1..n : ss[i] \in per[i]}

\* sum(scores) * 100, or the assertion failure of a score.
ScaledSum(scores) ==
    IF \E i \in DOMAIN scores : ~scores[i].ok
    THEN Failed("AssertionError")
    ELSE Returned(R(EnergyScale * SumNums(scores, 1), scores[1].val.den))

\* A variant of energy that sums the first two channels only.
energyTwoChannels(rf, img) ==
    {ScaledSum(scores) : scores \in ScoreLists(rf, img, NumChannels - 1)}

\* The outcomes of energy(): one per score list.
energy(rf, img) ==
    {ScaledSum(scores) : scores \in ScoreLists(rf, img, NumChannels)}

\* main: updates = steps / 20, which set_schedule truncates to an integer.
MainUpdates(s) == s \div UpdateDivisor

\* ------------------------------------------------------------------ inputs
ChanLo == <<0, 0>>
ChanMid == <<0, One>>
ChanHi == <<One, One>>
ChanNaN == <<NaN, NaN>>
SrcImages == {<<ChanLo, ChanMid, ChanHi>>}
RefImages == {<<ChanMid, ChanMid, ChanMid>>, <<ChanLo, ChanMid, ChanMid>>}

\* What the parsed operations may return for a descriptor: the operations are
\* an opaque pure function of the descriptor and the source, so the result of
\* a first evaluation is any of these arrays of the source's shape, and a
\* later evaluation of the same descriptor repeats it (memo).  The last one
\* is a degenerate result holding non-finite samples.
XfOut == {<<ChanMid, ChanMid, ChanMid>>, <<ChanLo, ChanMid, ChanMid>>,
          <<ChanLo, ChanMid, ChanLo>>, <<ChanNaN, ChanMid, ChanMid>>}
Degenerate(img) == \E i \in DOMAIN img : HasNaN(img[i])
\* The default parameters are no degenerate combination.
XfValid == {img \in XfOut : ~Degenerate(img)}
NoImage == <<>>

\* A variant of TransformOutcomes in which the result is not fixed by the
\* descriptor (as if the operations read the unrounded values).
TransformOutcomesAny(m, d) == XfOut

\* energy(): ops = self.cmd(self.state); the operations parsed from ops are
\* applied to a copy of self.src.  The result is fixed by the descriptor: the
\* one already seen for it (m), or, for a new descriptor, any array.
TransformOutcomes(m, d) == IF d \in DOMAIN m THEN {m[d]} ELSE XfOut

\* The outcomes of self.energy() for every reference and transformed array of
\* the model, evaluated once.
EnergyOf == [rf \in RefImages, img \in XfOut |-> energy(rf, img)]

SuppliedParams == [k \in Keys |-> IF k = "contrast" THEN 5 * Unit ELSE 2 * Unit]
Args == {NoneArg} \cup {Given([k \in D |-> SuppliedParams[k]]) : D \in SUBSET Keys}

\* Schedules a caller may pass to set_schedule: steps and updates.
Schedules == (0..MaxSteps) \X (0..MaxUpdates)

\* -------------------------------------------------------------- the engine
OwnIdle ==
    /\ self_src = NoImage
    /\ self_ref = NoImage

MoveIdle ==
    /\ mvPre = EmptyMap
    /\ mvDraw = "none"
    /\ mvKey = "none"
    /\ mvMul = 0
    /\ mvRuns = 0

RngIdle ==
    /\ seed = 0
    /\ rng = 0
    /\ ownDraws = 0
    /\ foreignDraws = 0
    /\ proposals = <<>>

DownIdle ==
    /\ imgW = 0
    /\ imgH = 0
    /\ sampling = "none"
    /\ downsample = [given |-> FALSE, val |-> 0]
    /\ ratio = NoValue
    /\ outW = 0
    /\ outH = 0

HDIdle ==
    /\ ha = <<>>
    /\ hb = <<>>
    /\ hbins = <<>>
    /\ hres = Failed("pending")
    /\ hresSw = Failed("pending")

EngineIdle ==
    /\ err = "none"
    /\ state = EmptyMap
    /\ prevState = EmptyMap
    /\ prevEnergy = NoValue
    /\ E = NoValue
    /\ best_state = EmptyMap
    /\ best_energy = NoValue
    /\ E0 = NoValue
    /\ step = 0
    /\ steps = 0
    /\ updates = 0
    /\ nmoves = 0
    /\ memo = EmptyMap
    /\ arr = NoImage
    /\ lastD = <<>>
    /\ lastE = Failed("pending")
    /\ optimal = EmptyMap
    /\ score = NoValue
    /\ ops = <<>>

Init ==
    /\ pc = "start"
    /\ arg \in Args
    /\ src \in SrcImages
    /\ ref \in RefImages
    /\ EngineIdle
    /\ HDIdle
    /\ OwnIdle
    /\ MoveIdle
    /\ RngIdle
    /\ DownIdle

\* est = ColorEstimator(orig_rgb, ref_rgb[, state])
Construct ==
    /\ pc = "start"
    /\ LET r == init(arg)
       IN  /\ pc' = IF r.ok THEN "idle" ELSE "error"
           /\ err' = r.err
           /\ state' = r.params
    /\ UNCHANGED <<arg, src, ref, prevState, prevEnergy, E, best_state,
                   best_energy, E0, step, steps, updates, nmoves, memo, arr,
                   lastD, lastE, optimal,
                   score, ops>>
    /\ UNCHANGED hdVars
    /\ UNCHANGED auxVars
    /\ self_src' = CopyOf(src)
    /\ self_ref' = CopyOf(ref)

\* est.set_schedule(schedule): main passes updates = steps / 20; a caller of
\* the engine may pass any updates.
SetSchedule ==
    /\ pc = "idle"
    /\ \E su \in Schedules \cup {<<s, MainUpdates(s)>> : s \in 0..MaxSteps} :
           /\ steps' = su[1]
           /\ updates' = su[2]
    /\ pc' = "scheduled"
    /\ UNCHANGED <<err, arg, src, ref, state, prevState, prevEnergy, E,
                   best_state, best_energy, E0, step, nmoves, memo, arr,
                       lastD, lastE, optimal,
                   score, ops>>
    /\ UNCHANGED hdVars
    /\ UNCHANGED auxVars
    /\ UNCHANGED ownVars

\* anneal(), up to the loop: the energy of the initial state, the first
\* best state.
AnnealStart ==
    /\ pc = "scheduled"
    /\ \E o \in XfValid :
       \E d \in {cmd(state)} :
       \E img \in {o} :
       \E en \in EnergyOf[self_ref, img] :
            /\ memo' = (d :> img) @@ memo
            /\ arr' = img
            /\ lastD' = d
            /\ lastE' = en
            /\ IF ~en.ok
               THEN /\ pc' = "error"
                    /\ err' = en.err
                    /\ UNCHANGED <<E, prevState, prevEnergy, best_state,
                                   best_energy, E0>>
               ELSE /\ pc' = "running"
                    /\ err' = err
                    /\ E' = en.val
                    /\ prevState' = state
                    /\ prevEnergy' = en.val
                    /\ best_state' = state
                    /\ best_energy' = en.val
                    /\ E0' = en.val
    /\ step' = 0
    /\ UNCHANGED <<arg, src, ref, state, steps, updates, nmoves, optimal,
                   score, ops>>
    /\ UNCHANGED hdVars
    /\ UNCHANGED auxVars
    /\ self_src' = SrcAfterEnergy(self_src, arr')
    /\ self_ref' = self_ref

\* dE > 0.0 and math.exp(-dE / T) < random.random(), rej being the outcome of
\* the comparison with the draw.
Rejected(prevE, newE, rej) == RLess(prevE, newE) /\ rej

\* A variant of RestoreState that keeps the moved state.
RestoreStateNone(prev, moved) == moved

\* On rejection: self.state = self.copy_state(prevState)
RestoreState(prev, moved) == prev

\* A variant of RestoreEnergy that keeps the energy of the rejected move.
RestoreEnergyNew(prevE, newE) == newE

\* On rejection: E = prevEnergy
RestoreEnergy(prevE, newE) == prevE

\* A variant of NewBest with the comparison turned around.
NewBestWorse(newE, bestE) == RLess(bestE, newE)

\* if E < self.best_energy
NewBest(newE, bestE) == RLess(newE, bestE)

\* anneal(), one pass of the loop: move, energy, the Metropolis rule, the
\* best state.  The progress reports (self.update) print and change nothing
\* of the search; when anneal issues them is not part of this model.
Step ==
    /\ pc = "running"
    /\ step < steps
    /\ \E k \in Keys, m \in Multipliers :
       \E k2 \in {j \in Keys : BiasGuard(state, k) \/ j = k} :
       \E moved \in {move(state, k, k2, m)} :
       \E d \in {cmd(moved)} :
       \E img \in TransformOutcomes(memo, d) :
       \E en \in EnergyOf[self_ref, img] :
       \E rej \in {b \in BOOLEAN : b => (en.ok /\ RLess(prevEnergy, en.val))} :
        LET st1 == step + 1
        IN
            /\ step' = st1
            /\ nmoves' = nmoves + 1
            /\ memo' = (d :> img) @@ memo
            /\ arr' = img
            /\ lastD' = d
            /\ lastE' = en
            /\ IF ~en.ok
               THEN /\ pc' = "error"
                    /\ err' = en.err
                    /\ state' = moved
                    /\ UNCHANGED <<E, prevState, prevEnergy, best_state,
                                   best_energy>>
               ELSE /\ pc' = "running"
                    /\ err' = err
                    /\ IF Rejected(prevEnergy, en.val, rej)
                       THEN /\ state' = RestoreState(prevState, moved)
                            /\ E' = RestoreEnergy(prevEnergy, en.val)
                            /\ UNCHANGED <<prevState, prevEnergy, best_state,
                                           best_energy>>
                       ELSE /\ state' = moved
                            /\ E' = en.val
                            /\ prevState' = moved
                            /\ prevEnergy' = en.val
                            /\ IF NewBest(en.val, best_energy)
                               THEN /\ best_state' = moved
                                    /\ best_energy' = en.val
                               ELSE UNCHANGED <<best_state, best_energy>>
    /\ UNCHANGED <<arg, src, ref, E0, steps, updates, optimal, score, ops>>
    /\ UNCHANGED hdVars
    /\ UNCHANGED auxVars
    /\ self_src' = SrcAfterEnergy(self_src, arr')
    /\ self_ref' = self_ref

\* anneal(), after the loop: self.state = copy of self.best_state;
\* return self.best_state, self.best_energy
AnnealReturn ==
    /\ pc = "running"
    /\ ~(step < steps)
    /\ pc' = "done"
    /\ optimal' = best_state
    /\ score' = best_energy
    /\ state' = best_state
    /\ UNCHANGED <<err, arg, src, ref, prevState, prevEnergy, E,
                   best_state, best_energy, E0, step, steps, updates, nmoves,
                   memo, arr, lastD, lastE,
                   ops>>
    /\ UNCHANGED hdVars
    /\ UNCHANGED auxVars
    /\ UNCHANGED ownVars

\* main, after anneal: optimal['energy'] = score; ops = est.cmd(optimal).
\* optimal is the engine's best_state object, so the key is added to it.
WithEnergy(st, sc) ==
    [k \in DOMAIN st \cup {"energy"} |-> IF k = "energy" THEN sc ELSE st[k]]

MainFinish ==
    /\ pc = "done"
    /\ pc' = "exit"
    /\ optimal' = WithEnergy(optimal, score)
    /\ best_state' = WithEnergy(optimal, score)
    /\ ops' = cmd(WithEnergy(optimal, score))
    /\ UNCHANGED <<err, arg, src, ref, state, prevState, prevEnergy, E,
                   best_energy, E0, step, steps, updates, nmoves, memo, arr,
                   lastD, lastE, score>>
    /\ UNCHANGED hdVars
    /\ UNCHANGED auxVars
    /\ UNCHANGED ownVars

Next ==
    \/ Construct
    \/ SetSchedule
    \/ AnnealStart
    \/ Step
    \/ AnnealReturn
    \/ MainFinish

Spec == Init /\ [][Next]_vars

\* ------------------------------------ histogram_distance on its own inputs
Tiny == EpsS \div 2
HDSamples == {0 - EpsS - 1, 0 - EpsS, 0 - Tiny, 0, Half, One, One + Tiny,
              One + EpsS, One + EpsS + 1}
\* min, max, size and the histogram do not depend on the order of the
\* samples: the arrays are drawn in ascending order.
HDArrays ==
    {a \in UNION {[1..n -> HDSamples] : n \in 1..MaxLen} :
        \A i \in 1..(Len(a) - 1) : a[i] <= a[i + 1]}
HDBins == {<<>>, <<0, Half, One>>, <<Half, One>>}

InitHD ==
    /\ pc = "hd"
    /\ arg = NoneArg
    /\ src = NoImage
    /\ ref = NoImage
    /\ EngineIdle
    /\ ha \in HDArrays
    /\ hb \in HDArrays
    /\ hbins \in HDBins
    /\ hres = Failed("pending")
    /\ hresSw = Failed("pending")
    /\ OwnIdle
    /\ MoveIdle
    /\ RngIdle
    /\ DownIdle

\* histogram_distance(a, b, bins)
HDCall ==
    /\ pc = "hd"
    /\ pc' = "hd_called"
    /\ hres' \in histogram_distance(ha, hb, hbins)
    /\ UNCHANGED <<ha, hb, hbins, hresSw>>
    /\ UNCHANGED auxVars
    /\ UNCHANGED ownVars
    /\ UNCHANGED <<err, arg, src, ref, state, prevState, prevEnergy, E,
                   best_state, best_energy, E0, step, steps, updates, nmoves,
                   memo, arr, lastD, lastE,
                   optimal, score, ops>>

\* histogram_distance(b, a, bins)
HDCallSwapped ==
    /\ pc = "hd_called"
    /\ pc' = "hd_done"
    /\ hresSw' \in histogram_distance(hb, ha, hbins)
    /\ UNCHANGED <<ha, hb, hbins, hres>>
    /\ UNCHANGED auxVars
    /\ UNCHANGED ownVars
    /\ UNCHANGED <<err, arg, src, ref, state, prevState, prevEnergy, E,
                   best_state, best_energy, E0, step, steps, updates, nmoves,
                   memo, arr, lastD, lastE,
                   optimal, score, ops>>

NextHD ==
    \/ HDCall
    \/ HDCallSwapped

SpecHD == InitHD /\ [][NextHD]_vars

\* ------------------------------------------------------- one call of move
\* move() on its own, pass by pass of its while loop, from the parameter
\* states one move away from the defaults in every key.
MoveValues(k) ==
    IF k = "contrast" THEN {Mul(10 * Unit, 9), 10 * Unit, Mul(10 * Unit, 11)}
    ELSE {Mul(Unit, 9), Unit, Mul(Unit, 11)}
MoveStates == {st \in [Keys -> UNION {MoveValues(k) : k \in Keys}] :
                  \A k \in Keys : st[k] \in MoveValues(k)}

InitMove ==
    /\ pc = "mv_start"
    /\ arg = NoneArg
    /\ src = NoImage
    /\ ref = NoImage
    /\ err = "none"
    /\ state \in MoveStates
    /\ prevState = EmptyMap
    /\ prevEnergy = NoValue
    /\ E = NoValue
    /\ best_state = EmptyMap
    /\ best_energy = NoValue
    /\ E0 = NoValue
    /\ step = 0
    /\ steps = 0
    /\ updates = 0
    /\ nmoves = 0
    /\ memo = EmptyMap
    /\ arr = NoImage
    /\ lastD = <<>>
    /\ lastE = Failed("pending")
    /\ optimal = EmptyMap
    /\ score = NoValue
    /\ ops = <<>>
    /\ HDIdle
    /\ OwnIdle
    /\ MoveIdle
    /\ RngIdle
    /\ DownIdle

moveFrame == <<err, arg, src, ref, prevState, prevEnergy, E, best_state,
               best_energy, E0, step, steps, updates, nmoves, memo, arr,
               lastD, lastE, optimal,
               score, ops>>

\* k = random.choice(self.keys); multiplier = random.choice((0.9, 1.1));
\* invalid_key = True
MoveBegin ==
    /\ pc = "mv_start"
    /\ pc' = "mv_loop"
    /\ \E k \in Keys, m \in Multipliers :
           /\ mvDraw' = k
           /\ mvKey' = k
           /\ mvMul' = m
    /\ mvPre' = state
    /\ mvRuns' = 0
    /\ UNCHANGED state
    /\ UNCHANGED moveFrame
    /\ UNCHANGED <<hdVars, ownVars, rngVars, dsVars>>

\* One pass of `while invalid_key`: the guard redraws k and continues, or
\* invalid_key = False ends the loop.
MoveLoop ==
    /\ pc = "mv_loop"
    /\ mvRuns < MaxPasses
    /\ mvRuns' = mvRuns + 1
    /\ IF BiasGuard(state, mvKey)
       THEN /\ pc' = "mv_loop"
            /\ \E k2 \in Keys : mvKey' = k2
       ELSE /\ pc' = "mv_apply"
            /\ mvKey' = mvKey
    /\ UNCHANGED <<state, mvPre, mvDraw, mvMul>>
    /\ UNCHANGED moveFrame
    /\ UNCHANGED <<hdVars, ownVars, rngVars, dsVars>>

\* newval = self.state[k] * multiplier; self.state[k] = newval
MoveApply ==
    /\ pc = "mv_apply"
    /\ pc' = "mv_done"
    /\ state' = move(state, mvDraw, mvKey, mvMul)
    /\ UNCHANGED mvVars
    /\ UNCHANGED moveFrame
    /\ UNCHANGED <<hdVars, ownVars, rngVars, dsVars>>

NextMove ==
    \/ MoveBegin
    \/ MoveLoop
    \/ MoveApply

\* A call of move runs on: nothing else is scheduled in between.
SpecMove == InitMove /\ [][NextMove]_vars /\ WF_vars(NextMove)

\* ------------------------------------------------- the random generator
\* move draws with random.choice, and anneal with random.random, from the
\* one generator of the module `random`, which any other code of the process
\* draws from as well.  The generator is a deterministic sequence of values
\* fixed by its seed; a small congruential generator stands for it.
RngMod == 16
RECURSIVE RandomValue(_, _)
\* The n-th value drawn after random.seed(sd).
RandomValue(sd, n) ==
    IF n = 0 THEN sd % RngMod ELSE (5 * RandomValue(sd, n - 1) + 3) % RngMod

\* random.choice(seq) with the generator's next value x.
RandomChoice(seq, x) == seq[(x * Len(seq)) \div RngMod + 1]
MultiplierChoices == <<9, 11>>

InitRng ==
    /\ pc = "rng_run"
    /\ arg = NoneArg
    /\ src = NoImage
    /\ ref = NoImage
    /\ EngineIdle
    /\ HDIdle
    /\ OwnIdle
    /\ MoveIdle
    /\ DownIdle
    /\ seed \in 0..(RngMod - 1)
    /\ rng = 0
    /\ ownDraws = 0
    /\ foreignDraws = 0
    /\ proposals = <<>>

rngFrame == <<err, arg, src, ref, state, prevState, prevEnergy, E,
              best_state, best_energy, E0, step, steps, updates, nmoves, memo,
                  arr, lastD, lastE,
              optimal, score, ops>>

\* One step of the engine: move draws the key and the multiplier; anneal
\* draws random.random() for the acceptance when the energy went up (metro).
RngEngineStep ==
    /\ pc = "rng_run"
    /\ Len(proposals) < MaxSteps
    /\ \E metro \in {0, 1} :
           /\ rng' = rng + 2 + metro
           /\ ownDraws' = ownDraws + 2 + metro
    /\ proposals' = Append(proposals,
           [key |-> RandomChoice(keys, RandomValue(seed, rng + 1)),
            mul |-> RandomChoice(MultiplierChoices, RandomValue(seed,
                rng + 2)),
            at |-> ownDraws])
    /\ UNCHANGED <<pc, seed, foreignDraws>>
    /\ UNCHANGED rngFrame
    /\ UNCHANGED <<hdVars, ownVars, mvVars, dsVars>>

\* Other code of the process (another engine, a library) draws one value.
RngForeignDraw ==
    /\ pc = "rng_run"
    /\ foreignDraws < MaxForeign
    /\ rng' = rng + 1
    /\ foreignDraws' = foreignDraws + 1
    /\ UNCHANGED <<pc, seed, ownDraws, proposals>>
    /\ UNCHANGED rngFrame
    /\ UNCHANGED <<hdVars, ownVars, mvVars, dsVars>>

RngFinish ==
    /\ pc = "rng_run"
    /\ Len(proposals) = MaxSteps
    /\ pc' = "rng_done"
    /\ UNCHANGED rngVars
    /\ UNCHANGED rngFrame
    /\ UNCHANGED <<hdVars, ownVars, mvVars, dsVars>>

NextRng ==
    \/ RngEngineStep
    \/ RngForeignDraw
    \/ RngFinish

SpecRng == InitRng /\ [][NextRng]_vars

\* ------------------------------------------------------ sizing the images
\* main without --downsample: ratio = calc_downsample(width, height), then
\* the source is read at (width // ratio, height // ratio) and the reference
\* at (int(width / ratio), int(height / ratio)).  The ratio is a float; for
\* sizes that are multiples of 100 it and both quotients are exact, and the
\* sizes are drawn from those.
DownDims == {100 * i : i \in 1..MaxHundreds} \cup {1, 7, 399}

\* --downsample: not given (None), or an integer.
NoDownsample == [given |-> FALSE, val |-> 0]
DownsampleArgs ==
    {NoDownsample} \cup {[given |-> TRUE, val |-> k] : k \in 0..MaxDownsample}

\* calc_downsample(w, h, target=400): h / target if w > h, else w / target.
\* The quotient is a double; R(m, Target) stands for the double nearest to
\* m / Target.
calc_downsample(w, h) == IF w > h THEN R(h, Target) ELSE R(w, Target)

\* if downsample is None: ratio = calc_downsample(width, height)
\* else: ratio = downsample
RatioFor(ds, w, h) == IF ds.given THEN R(ds.val, 1) ELSE calc_downsample(w, h)

\* How the double of m / Target lies to m / Target: 0 when it is m / Target,
\* positive when it lies above, negative when below, in units of
\* 2^-k / Target with k = MantissaBits - exponent.  Target = 16 * 25, so
\* the rounding is that of (m / 16) / 25.
RatioExcess(m) ==
    LET odd == Target \div 16
        t == DoubleResidue(m, odd)
    IN  IF t = 0 THEN 0
        ELSE IF 2 * t > odd THEN 16 * (odd - t)
        ELSE 0 - 16 * t

\* int(d // ratio).  With an integer ratio this is the integer floor
\* division.  With the double of m / Target it is the floor of the exact
\* quotient of d by that double (float floor division works on the exact
\* remainder): one less than Target * d / m when that is a whole number and
\* the double lies above m / Target.
FloorDivRatio(d, r) ==
    IF r.den = 1 THEN d \div r.num
    ELSE LET q == (d * r.den) \div r.num
             rest == (d * r.den) % r.num
         IN  IF rest = 0 /\ RatioExcess(r.num) > 0 THEN q - 1 ELSE q

\* int(d / ratio).  The quotient is rounded to the nearest double before it
\* is truncated: where Target * d / m is a whole number q and the double of
\* m / Target lies above m / Target, the exact quotient lies below q by
\* q * excess / m units, and rounds back up to q when that is at most half
\* the spacing of the doubles below q (2^a units).
TruncDivRatio(d, r) ==
    IF r.den = 1 THEN d \div r.num
    ELSE LET m == r.num
             q == (d * r.den) \div m
             rest == (d * r.den) % m
             rho == RatioExcess(m)
             e == Log2Floor(q, 1)
             s == IF q = Pow2(e) THEN e - 1 ELSE e
             a == s - 1 - Log2Floor(m, r.den)
             keep == IF a >= 0 THEN q * rho <= m * Pow2(a)
                     ELSE q * rho * Pow2(0 - a) <= m
         IN  IF rest # 0 \/ rho <= 0 THEN q
             ELSE IF keep THEN q ELSE q - 1

InitDown ==
    /\ pc = "ds_start"
    /\ arg = NoneArg
    /\ src = NoImage
    /\ ref = NoImage
    /\ EngineIdle
    /\ HDIdle
    /\ OwnIdle
    /\ MoveIdle
    /\ RngIdle
    /\ imgW \in DownDims
    /\ imgH \in DownDims
    /\ sampling \in {"source", "reference"}
    /\ downsample \in DownsampleArgs
    /\ ratio = NoValue
    /\ outW = 0
    /\ outH = 0

downFrame == <<arg, src, ref, state, prevState, prevEnergy, E,
               best_state, best_energy, E0, step, steps, updates, nmoves,
               memo, arr, lastD, lastE,
               optimal, score, ops>>

\* if downsample is None: ratio = calc_downsample(src.width, src.height)
\* else: ratio = downsample
CalcRatio ==
    /\ pc = "ds_start"
    /\ pc' = "ds_ratio"
    /\ ratio' = RatioFor(downsample, imgW, imgH)
    /\ UNCHANGED <<err, imgW, imgH, sampling, downsample, outW, outH>>
    /\ UNCHANGED downFrame
    /\ UNCHANGED <<hdVars, ownVars, mvVars, rngVars>>

\* w = int(src.width // ratio); h = int(src.height // ratio); a ratio of 0
\* raises ZeroDivisionError.
ReadSource ==
    /\ pc = "ds_ratio"
    /\ sampling = "source"
    /\ IF ratio.num = 0
       THEN /\ pc' = "error"
            /\ err' = "ZeroDivisionError"
            /\ UNCHANGED <<outW, outH>>
       ELSE /\ pc' = "ds_read"
            /\ outW' = FloorDivRatio(imgW, ratio)
            /\ outH' = FloorDivRatio(imgH, ratio)
            /\ UNCHANGED err
    /\ UNCHANGED <<imgW, imgH, sampling, downsample, ratio>>
    /\ UNCHANGED downFrame
    /\ UNCHANGED <<hdVars, ownVars, mvVars, rngVars>>

\* w = int(ref.width / ratio); h = int(ref.height / ratio); a ratio of 0
\* raises ZeroDivisionError.
ReadReference ==
    /\ pc = "ds_ratio"
    /\ sampling = "reference"
    /\ IF ratio.num = 0
       THEN /\ pc' = "error"
            /\ err' = "ZeroDivisionError"
            /\ UNCHANGED <<outW, outH>>
       ELSE /\ pc' = "ds_read"
            /\ outW' = TruncDivRatio(imgW, ratio)
            /\ outH' = TruncDivRatio(imgH, ratio)
            /\ UNCHANGED err
    /\ UNCHANGED <<imgW, imgH, sampling, downsample, ratio>>
    /\ UNCHANGED downFrame
    /\ UNCHANGED <<hdVars, ownVars, mvVars, rngVars>>

NextDown ==
    \/ CalcRatio
    \/ ReadSource
    \/ ReadReference

SpecDown == InitDown /\ [][NextDown]_vars

\* --------------------------------------------------------- late in a run
\* The engine late in a long run, when a parameter has become small: 0.04
\* stands for the values below 0.05 that repeated moves by 0.9 reach
\* (0.9^29 = 0.047), for which a further move leaves the two-decimal field of
\* the descriptor as it is.  The run is picked up between two steps, the
\* current state being the best so far, with MaxSteps steps left.
SmallValue == (4 * Unit) \div 100
LateStates ==
    {[DefaultParams EXCEPT ![k] = SmallValue] : k \in {"gamma_red",
        "gamma_blue"}}

InitLate ==
    /\ pc = "running"
    /\ err = "none"
    /\ arg = NoneArg
    /\ src \in SrcImages
    /\ ref \in RefImages
    /\ self_src = src
    /\ self_ref = ref
    /\ state \in LateStates
    /\ prevState = state
    /\ best_state = state
    /\ arr \in XfValid
    /\ lastD = cmd(state)
    /\ memo = (lastD :> arr)
    /\ lastE \in EnergyOf[ref, arr]
    /\ E = lastE.val
    /\ prevEnergy = E
    /\ best_energy = E
    /\ E0 = E
    /\ step = 0
    /\ steps = MaxSteps
    /\ updates = 0
    /\ nmoves = 0
    /\ optimal = EmptyMap
    /\ score = NoValue
    /\ ops = <<>>
    /\ HDIdle
    /\ MoveIdle
    /\ RngIdle
    /\ DownIdle

NextLate ==
    \/ Step
    \/ AnnealReturn
    \/ MainFinish

SpecLate == InitLate /\ [][NextLate]_vars

\* ================================================================= claims
\* Written apart from the model's operators: the histogram counts, the
\* default edges and the energy of the claims are stated here directly.
ClaimDefaultEdges ==
    <<0, 1000000, 2000000, 3000000, 4000000, 5000000, 6000000, 7000000,
      8000000, 9000000, 10000000>>
ClaimEdges(bins) == IF bins = <<>> THEN ClaimDefaultEdges ELSE bins
ClaimCount(a, e, k) ==
    Cardinality({i \in DOMAIN a :
        /\ e[k] <= a[i]
        /\ \/ a[i] < e[k + 1]
           \/ (k + 1 = Len(e) /\ a[i] = e[k + 1])})
RECURSIVE ClaimSqNum(_, _, _, _)
ClaimSqNum(a, b, e, k) ==
    IF k >= Len(e) THEN 0
    ELSE (ClaimCount(a, e, k) * Len(b) - ClaimCount(b, e, k) * Len(a))
           * (ClaimCount(a, e, k) * Len(b) - ClaimCount(b, e, k) * Len(a))
         + ClaimSqNum(a, b, e, k + 1)
ClaimDistance(a, b, bins) ==
    R(ClaimSqNum(a, b, ClaimEdges(bins), 1),
        (Len(a) * Len(b)) * (Len(a) * Len(b)))
ClaimEnergy(rf, img) ==
    R(100 * (ClaimDistance(rf[1], img[1], <<>>).num
             + ClaimDistance(rf[2], img[2], <<>>).num
             + ClaimDistance(rf[3], img[3], <<>>).num),
      ClaimDistance(rf[1], img[1], <<>>).den)
ClaimEnergyOf == [rf \in RefImages, img \in XfOut |-> ClaimEnergy(rf, img)]
ClaimDefaults ==
    [gamma_red |-> Unit, gamma_green |-> Unit, gamma_blue |-> Unit,
     contrast |-> 10 * Unit]
Annealing == pc \in {"running", "done", "exit"}

\* C1: the best energy of a run is never higher than the energy of the
\* initial state, the returned energy included, and the best-so-far energy
\* does not increase from one step of the run to the next.
C1_BestEnergyNeverWorse ==
    /\ [](Annealing => RLeq(best_energy, E0))
    /\ [](pc \in {"done", "exit"} => (score = best_energy /\ RLeq(score, E0)))
    /\ [][pc = "running" => RLeq(best_energy', best_energy)]_vars

\* C1 witness: a run of two steps has returned a best energy strictly below
\* the initial one while its current energy is above the best.
C1_Witness ==
    /\ pc = "done"
    /\ steps = 2
    /\ nmoves = 2
    /\ RLess(score, E0)
    /\ RLess(best_energy, E)

\* C2: a run with steps = 0 makes no move and returns the initial state (the
\* defaults main constructs the engine with) and its energy, the current
\* state being the initial one still.
C2_ZeroStepsReturnsInitial ==
    (pc = "done" /\ steps = 0) =>
        /\ nmoves = 0
        /\ step = 0
        /\ optimal = ClaimDefaults
        /\ state = ClaimDefaults
        /\ best_state = ClaimDefaults
        /\ lastD = <<100, 100, 100, 1000>>
        /\ REq(score, ClaimEnergyOf[ref, memo[lastD]])
        /\ score = E0

\* C2 witness: a run with steps = 0 has returned, with a positive energy.
C2_Witness ==
    /\ pc = "done"
    /\ steps = 0
    /\ score.num > 0
    /\ optimal = ClaimDefaults

ArgLacksKey == arg.given /\ \E k \in Keys : k \notin DOMAIN arg.map
ArgComplete == arg.given /\ DOMAIN arg.map = Keys

\* C3 (as claimed): constructing with a state that lacks a key, the empty
\* mapping included, fails with ValueError, and nothing runs.
C3_MissingKeyRaisesValueError ==
    (pc # "start" /\ ArgLacksKey) => (pc = "error" /\ err = "ValueError")

\* C4 (as claimed): constructing with a state that has the four keys
\* succeeds with exactly these values; without a state the defaults are used.
C4_CompleteStateAccepted ==
    pc \in {"idle", "error"} =>
        /\ ArgComplete => (pc = "idle" /\ err = "none" /\ state = arg.map)
        /\ ~arg.given => (pc = "idle" /\ state = ClaimDefaults)

\* C5 (as claimed): a proposed move whose transformed data is degenerate is
\* rejected alone: the state is the one before the move and the run goes on.
C5_DegenerateMoveRejected ==
    (nmoves > 0 /\ Degenerate(arr)) =>
        /\ pc # "error"
        /\ state = prevState
        /\ E = prevEnergy

HDCalled == pc \in {"hd_called", "hd_done"}
ClaimInBand(a) == \A i \in DOMAIN a : 0 - 10 <= a[i] /\ a[i] <= 10000000 + 10
ClaimInUnit(a) == \A i \in DOMAIN a : 0 <= a[i] /\ a[i] <= 10000000

\* C6 (as claimed): with the default bins histogram_distance fails when a
\* sample of either array is below 0 - eps or above 1 + eps, and returns a
\* distance for every pair of arrays whose samples all lie in the closed
\* interval [0 - eps, 1 + eps], the two bounds included.
C6_RangePrecondition ==
    (HDCalled /\ hbins = <<>>) =>
        (hres.ok <=> (ClaimInBand(ha) /\ ClaimInBand(hb)))

\* C7: a distance histogram_distance returns is the sum over the bins of the
\* squared difference of count/size of the two arrays, the last bin closed on
\* the right and the edges 0.0, 0.1, ..., 1.0 when bins is omitted; it does
\* return one for arrays in [0, 1] over edges that span [0, 1]; for zeros
\* against ones of one size with bins [0, 0.5, 1.0] it is 2.0.
C7_DistanceFormula ==
    HDCalled =>
        /\ hres.ok => REq(hres.val, ClaimDistance(ha, hb, hbins))
        /\ (ClaimInUnit(ha) /\ ClaimInUnit(hb) /\ hbins # <<5000000,
                                                            10000000>>)
               => hres.ok
        /\ ( /\ \A i \in DOMAIN ha : ha[i] = 0
             /\ \A i \in DOMAIN hb : hb[i] = 10000000
             /\ Len(ha) = Len(hb)
             /\ hbins = <<0, 5000000, 10000000>> )
               => (hres.ok /\ hres.val.num = 2 * hres.val.den)

\* C7 witness: zeros against ones, two samples each, bins [0, 0.5, 1.0]: 2.0.
C7_Witness ==
    /\ pc = "hd_called"
    /\ ha = <<0, 0>>
    /\ hb = <<10000000, 10000000>>
    /\ hbins = <<0, 5000000, 10000000>>
    /\ hres.ok
    /\ hres.val.num = 2 * hres.val.den

\* C8: histogram_distance(a, b) and histogram_distance(b, a) have the same
\* outcome, for arrays of different sizes too, and histogram_distance(a, a)
\* is 0.0 when it returns.
C8_SymmetricAndZeroOnEqual ==
    pc = "hd_done" =>
        /\ hres = hresSw
        /\ (ha = hb /\ hres.ok) => hres.val.num = 0

\* C8 witness: both orders have returned the same positive distance for two
\* arrays of different sizes.
C8_Witness ==
    /\ pc = "hd_done"
    /\ Len(ha) # Len(hb)
    /\ hres.ok
    /\ hresSw.ok
    /\ hres.val.num > 0

\* C9: an energy the engine computes is 100 times the sum over the three
\* channels of the histogram distance between the reference channel and the
\* channel of the source transformed by the descriptor of the current state,
\* and it is not negative (the state is the moved one, or the one restored
\* after a rejected move).
C9_EnergyIsScaledSum ==
    lastE.err # "pending" =>
        /\ pc \in {"running",
            "error"} => (lastD = cmd(state) \/ state = prevState)
        /\ arr = memo[lastD]
        /\ lastE.ok =>
              /\ REq(lastE.val, ClaimEnergyOf[ref, arr])
              /\ lastE.val.num >= 0
              /\ lastE.val.den > 0

\* C9 witness: after a move the energy is positive and the third channels of
\* the reference and of the transformed source differ.
C9_Witness ==
    /\ pc = "running"
    /\ nmoves > 0
    /\ lastE.ok
    /\ lastE.val.num > 0
    /\ arr[3] # ref[3]
    /\ REq(lastE.val, ClaimEnergyOf[ref, arr])

\* One pass of the loop of anneal that went through (no assertion failed).
StepTaken == pc = "running" /\ pc' = "running" /\ step' = step + 1
ClaimIsMove(a, b) ==
    \E k \in DOMAIN a : \E m \in {9, 11} :
        b = [a EXCEPT ![k] = (a[k] * m) \div 10]
ClaimAccepted ==
    /\ ClaimIsMove(state, state')
    /\ E' = lastE'.val
    /\ prevState' = state'
    /\ prevEnergy' = E'
ClaimReverted ==
    /\ state' = state
    /\ \A k \in {"gamma_red", "gamma_green", "gamma_blue", "contrast"} :
           state'[k] = state[k]
    /\ E' = E
    /\ E' = prevEnergy
    /\ UNCHANGED <<prevState, prevEnergy, best_state, best_energy>>

\* C11: in every step the move is either accepted or rejected; a rejected
\* move had a higher energy than the previous one and leaves the state, in
\* its four values, and the energy as they were before the move; a move
\* whose energy is not higher than the previous one is accepted.
C11_RejectRevertsAcceptKeeps ==
    [][StepTaken =>
        /\ ClaimAccepted \/ ClaimReverted
        /\ ClaimReverted => RLess(prevEnergy, lastE'.val)
        /\ RLeq(lastE'.val, prevEnergy) => ClaimAccepted]_vars

\* C11 witness: the last move had a higher energy and was rejected: the
\* state is the one before it, not the one evaluated.
C11_Witness ==
    /\ pc = "running"
    /\ nmoves > 0
    /\ lastE.ok
    /\ RLess(E, lastE.val)
    /\ state = prevState
    /\ lastD # cmd(state)
    /\ E = prevEnergy

MoveDone == pc = "mv_done"
ClaimKeys == {"gamma_red", "gamma_green", "gamma_blue", "contrast"}

\* C12: a call of move changes exactly one of the four parameters: the chosen
\* key gets its old value times 0.9 or 1.1, the other three keep theirs, and
\* the key set stays the four keys.
C12_MoveChangesOneParameter ==
    MoveDone =>
        /\ DOMAIN state = ClaimKeys
        /\ DOMAIN mvPre = ClaimKeys
        /\ mvKey \in ClaimKeys
        /\ mvMul \in {9, 11}
        /\ 10 * state[mvKey] = mvPre[mvKey] * mvMul
        /\ \A k \in ClaimKeys \ {mvKey} : state[k] = mvPre[k]
        /\ Cardinality({k \in ClaimKeys : state[k] # mvPre[k]}) = 1

\* C12 witness: a call drew gamma_green and 1.1: gamma_green went from 1.0 to
\* 1.1 and the other three stayed.
C12_Witness ==
    /\ MoveDone
    /\ mvKey = "gamma_green"
    /\ mvMul = 11
    /\ mvPre["gamma_green"] = Unit
    /\ 10 * state["gamma_green"] = 11 * Unit
    /\ \A k \in ClaimKeys \ {"gamma_green"} : state[k] = mvPre[k]

\* C13: a call of move ends; the `bias` guard is not taken, the loop body runs
\* exactly once, and the key the value is stored under is the key first
\* drawn, whatever the parameter values are.
C13_MoveTerminatesGuardDead ==
    /\ [](pc \in {"mv_apply", "mv_done"} => (mvRuns = 1 /\ mvKey = mvDraw))
    /\ [](pc = "mv_loop" => (mvRuns = 0 /\ mvKey = mvDraw /\ mvKey # "bias"))
    /\ [](pc = "mv_start" => <>MoveDone)

\* C13 witness: a call that drew contrast, whose value is above the guard's
\* 0.909, ended after one pass of the loop with contrast changed.
C13_Witness ==
    /\ MoveDone
    /\ mvDraw = "contrast"
    /\ mvPre["contrast"] * 1000 > 909 * Unit
    /\ mvRuns = 1
    /\ state["contrast"] # mvPre["contrast"]

\* C14: once the engine is constructed its source and reference buffers hold
\* the samples the caller passed, after any number of energy evaluations and
\* steps, and the caller's arrays are never changed.
C14_BuffersNeverModified ==
    /\ [](pc # "start" => (self_src = src /\ self_ref = ref))
    /\ [][src' = src /\ ref' = ref]_vars
    /\ [][pc # "start" => (self_src' = self_src /\ self_ref' = self_ref)]_vars

\* C14 witness: two moves were evaluated, the last on a transformed array
\* that differs from the source, and the buffers are those of the caller.
C14_Witness ==
    /\ pc = "running"
    /\ nmoves = 2
    /\ arr # self_src
    /\ Len(self_src) = 3
    /\ self_src = src
    /\ self_ref = ref

\* C15 (as claimed): the current state, the best state, the returned state
\* and the state main formats have exactly the four keys at every point,
\* from construction through the end of main.
C15_ExactlyFourKeys ==
    /\ pc \in {"idle", "scheduled", "running", "done", "exit"} =>
           DOMAIN state = ClaimKeys
    /\ pc \in {"running", "done", "exit"} => DOMAIN best_state = ClaimKeys
    /\ pc \in {"done", "exit"} => DOMAIN optimal = ClaimKeys

\* The proposal an engine with a random source of its own, seeded alike,
\* draws when it has drawn n values before.
RECURSIVE ClaimStream(_, _)
ClaimStream(sd, n) == IF n = 0 THEN sd % 16 ELSE (5 * ClaimStream(sd,
    n - 1) + 3) % 16
ClaimOwnKey(sd, n) ==
    <<"gamma_red", "gamma_green", "gamma_blue", "contrast">>[ClaimStream(sd,
      n + 1) \div 4 + 1]
ClaimOwnMul(sd, n) == <<9, 11>>[ClaimStream(sd, n + 2) \div 8 + 1]

\* C16 (as claimed): for a fixed seed the proposals (key, multiplier) of a
\* run are the same whether or not other code draws random numbers before or
\* between its steps.
C16_ProposalsUnaffectedByOthers ==
    \A i \in DOMAIN proposals :
        /\ proposals[i].key = ClaimOwnKey(seed, proposals[i].at)
        /\ proposals[i].mul = ClaimOwnMul(seed, proposals[i].at)

ClaimLargest(a, b) == IF a > b THEN a ELSE b

\* C17 (as claimed): with the default sampling (no --downsample) the largest
\* dimension of the sampled image is near the target of 400 pixels (here:
\* within a quarter of it), and the source and the reference are sized by
\* one rule: an image is read at the same size as source and as reference.
C17_LargestDimensionNearTarget ==
    (pc = "ds_read" /\ ~downsample.given) =>
        /\ 4 * ClaimLargest(outW, outH) >= 3 * 400
        /\ 4 * ClaimLargest(outW, outH) <= 5 * 400
        /\ outW = FloorDivRatio(imgW, ratio)
        /\ outW = TruncDivRatio(imgW, ratio)
        /\ outH = FloorDivRatio(imgH, ratio)
        /\ outH = TruncDivRatio(imgH, ratio)

\* The Energy Function on a state the run has evaluated: the energy of the
\* array the operations give for the state's descriptor.
ClaimEvaluated(st) == cmd(st) \in DOMAIN memo
ClaimEnergyAt(st) == ClaimEnergyOf[ref, memo[cmd(st)]]

\* C18: between the steps of a run the current energy is the energy of the
\* current state (after a reverted move too) and the best energy that of the
\* best state; the returned energy is the energy of the returned state; the
\* best state changes only when a step records a strictly lower energy, and
\* is then the state of that step.
C18_EnergiesMatchStates ==
    /\ [](pc = "running" =>
            /\ ClaimEvaluated(state) /\ REq(E, ClaimEnergyAt(state))
            /\ ClaimEvaluated(best_state)
            /\ REq(best_energy, ClaimEnergyAt(best_state)))
    /\ [](pc \in {"done", "exit"} =>
            /\ ClaimEvaluated(optimal) /\ REq(score, ClaimEnergyAt(optimal)))
    /\ [][(pc = "running" /\ pc' = "running" /\ best_state' # best_state) =>
            /\ RLess(best_energy', best_energy)
            /\ best_state' = state']_vars
    /\ [][(pc = "running" /\ pc' = "done") =>
            (optimal' = best_state /\ score' = best_energy)]_vars

\* C18 witness: after an accepted uphill move and a rejected one the current
\* state is neither the best state nor the state last evaluated, and the
\* current energy is that of the current state.
C18_Witness ==
    /\ pc = "running"
    /\ nmoves = 2
    /\ state # best_state
    /\ lastD # cmd(state)
    /\ RLess(best_energy, E)
    /\ RLess(E, lastE.val)
    /\ REq(E, ClaimEnergyAt(state))

\* The four fields of the descriptor, in hundredths, rounded to nearest.
ClaimField(v) == (100 * v + Unit \div 2) \div Unit
ClaimDescriptor(st) ==
    <<ClaimField(st["gamma_red"]), ClaimField(st["gamma_green"]),
      ClaimField(st["gamma_blue"]), ClaimField(st["contrast"])>>
MoveEvaluated == pc = "running" /\ step' = step + 1

\* C19: the descriptor is the four values rounded to two decimals, whatever
\* other keys the mapping has; evaluating a state whose descriptor was
\* evaluated before gives the same transformed array and the same energy; a
\* move that leaves the descriptor of the current state as it is has energy
\* difference 0 and is accepted.
C19_EnergyThroughDescriptor ==
    /\ [](pc = "running" => (lastD = ClaimDescriptor(state) \/ state = prevState))
    /\ [](pc = "exit" =>
            /\ "energy" \in DOMAIN optimal
            /\ ops = ClaimDescriptor([k \in ClaimKeys |-> optimal[k]]))
    /\ [][(MoveEvaluated /\ lastD' \in DOMAIN memo) =>
            /\ arr' = memo[lastD']
            /\ lastE' = [ok |-> TRUE, err |-> "none",
                         val |-> lastE'.val]
            /\ REq(lastE'.val, ClaimEnergyOf[ref, memo[lastD']])]_vars
    /\ [][(MoveEvaluated /\ lastD' = ClaimDescriptor(state)) =>
            /\ pc' = "running"
            /\ REq(lastE'.val, E)
            /\ E' = E
            /\ state' # state
            /\ ClaimIsMove(state, state')
            /\ ClaimDescriptor(state') = ClaimDescriptor(state)
            /\ prevState' = state']_vars

\* C19 witness: a move took gamma_red from 0.04 to 0.044; the descriptor
\* still reads 0.04, the energy is the one before the move and the move was
\* accepted.
C19_Witness ==
    /\ pc = "running"
    /\ nmoves = 1
    /\ 1000 * state["gamma_red"] = 44 * Unit
    /\ lastD = ClaimDescriptor(state)
    /\ lastD[1] = 4
    /\ state = prevState
    /\ E = E0
    /\ Cardinality(DOMAIN memo) = 1

====
